---- MODULE Spec2Model ----
(***************************************************************************)
(* Request/reply protocol of async-mq's Producer (src/src/produce.rs),     *)
(* its hooks (src/src/message.rs) and the broker it talks to.              *)
(*                                                                         *)
(* A ProducerBuilder builds Producers.  Each Producer owns a tx channel,   *)
(* an rx channel and the consume stream of a private reply queue.  rpc     *)
(* publishes a request carrying reply-to, takes the next item of the       *)
(* stream, hands its payload to the installed extension and acknowledges   *)
(* the delivery when the extension succeeds.  Every await of rpc is one    *)
(* step, so the broker and the peer run between the steps.                 *)
(*                                                                         *)
(* Spec follows one Producer under every broker fault; SpecFair adds the   *)
(* progress of the awaits; SpecBuild follows several Producers of one      *)
(* builder; SpecConsumer puts the Consumer of the work queue in place of   *)
(* the echoing peer; SpecEq runs a Publisher (src/src/publish.rs) beside   *)
(* a Producer.                                                             *)
(*                                                                         *)
(* Option<T> is a sequence of length at most one: <<>> is None, <<x>> is   *)
(* Some(x).  The option bags (tx_opts, rx_opts, ack_opts, queue_opts apart *)
(* from exclusive/auto_delete, field_table) are never changed by the code  *)
(* and are left out.                                                       *)
(***************************************************************************)
EXTENDS Integers, Sequences, FiniteSets, TLC

VARIABLES
    builder,    \* the ProducerBuilder: [ex, queue, tx_props, extension]
    producers,  \* the Producers built so far, in build order
    channels,   \* broker: per opened channel, the deliveries it has numbered
    queues,     \* broker: the declared queues
    consumers,  \* broker: the consumers started by basic_consume
    ngen,       \* broker: how many server-named queues it has generated
    inbox,      \* broker: requests routed to the work queue, not yet processed
    published,  \* broker: every basic_publish it accepted, in order
    ackLog,     \* broker: every basic_ack/nack/reject it received, in order
    hookLog,    \* every hook invocation (ProducerExt::recv, and the
                \* Consumer's MessageProcess::process), in order
    faults,     \* broker: the faults that have happened, in order
    pc,         \* per caller task: where it is suspended
    cur,        \* per caller task: the call it is running (index in calls)
    calls       \* every publish/rpc call started: its request, the stream
                \* items it took, its hook's verdict and what it returned

vars == <<builder, producers, channels, queues, consumers, ngen, inbox,
          published, ackLog, hookLog, faults, pc, cur, calls>>

---------------------------------------------------------------------------
(* Bounds of the model. *)

\* The Producers followed, by their place in build order.  A Producer shares
\* nothing with another one but the broker, so the calls on one Producer are
\* followed on the first one built.
ProducerIds == {1}
\* The builder can still build a Producer that is followed.
CanBuild == Len(producers) + 1 \in ProducerIds
\* publish and rpc calls started, over all Producers.
MaxCalls == 2
\* Broker faults (an error of build, publish, the stream or ack, or the
\* stream ending), over the whole run.
MaxFaults == 1
\* The Producers built where the Producers of one builder are compared.
MaxProducers == 2

\* Two payloads tell a reply from the reply to another request.
Payloads == {1, 2}
\* The caller tasks that may hold or ask for a Producer.
Callers == {1, 2}
WorkQueue == "work"

---------------------------------------------------------------------------
(* Values. *)

\* lapin::Result<()>: Ok(()) carries no payload.
Ok == [tag |-> "Ok"]
Err(e) == [tag |-> "Err", err |-> e]

\* The lapin::Error the broker raises at `site`; n numbers the broker's faults.
BrokerError(site, n) == [site |-> site, id |-> n]

\* lapin::BasicProperties::default(): no reply-to.
DefaultProperties == [reply_to |-> <<>>]
WithReplyTo(props, name) == [props EXCEPT !.reply_to = <<name>>]

\* lapin::options::QueueDeclareOptions::default()
DefaultQueueOpts == [exclusive |-> FALSE, auto_delete |-> FALSE]

\* The extensions: DebugPrinter (the default) always succeeds; RejectPeeker
\* stands for an extension whose recv always fails, as RejectPeeker::peek does.
Hooks == {"DebugPrinter", "RejectPeeker"}

\* DebugPrinter::recv
DebugPrinterRecv(data) == "Ok"
\* RejectPeeker::peek
RejectPeekerPeek(data) == "Err"
\* ProducerExt::recv takes &mut self, so a hook may keep state of its own:
\* AcceptOnce stands for a hook that accepts the first payload it is given
\* and, being spent then, rejects every later one.
StatefulHooks == {"AcceptOnce", "AcceptOnceSpent"}
AcceptOnceRecv(h, data) == IF h = "AcceptOnce" THEN "Ok" ELSE "Err"
\* self.extension.recv(msg.data): the dynamic dispatch on the boxed hook.
ExtensionRecv(h, data) ==
    IF h = "DebugPrinter" THEN DebugPrinterRecv(data)
    ELSE IF h \in StatefulHooks THEN AcceptOnceRecv(h, data)
    ELSE RejectPeekerPeek(data)
\* The hook as recv leaves it.
ExtensionAfter(h, data) == IF h = "AcceptOnce" THEN "AcceptOnceSpent" ELSE h

\* A processor answering with a payload of its own.
EchoProcess_Constant(data) == <<1>>

\* EchoProcessor::process: Ok(msg.data().to_vec())
EchoProcess(data) == <<data>>

---------------------------------------------------------------------------
(* The broker. *)

\* The name the broker gives its n-th server-named queue.
GenName(n) == "amq.gen-" \o ToString(n)

\* Connection::channel(name, opts, _): open a channel and declare the queue
\* `name` on it; the empty name asks for a server-named queue.  Returns the
\* new broker state and the (channel, queue name) handed back.
ConnChannel(chs, qs, gen, name, opts) ==
    LET qname == IF name = "" THEN GenName(gen + 1) ELSE name
    IN  [channels |-> Append(chs, [ntag |-> 0]),
         queues   |-> qs \cup {[name |-> qname, exclusive |-> opts.exclusive,
                                auto_delete |-> opts.auto_delete]},
         ngen     |-> IF name = "" THEN gen + 1 ELSE gen,
         ch       |-> Len(chs) + 1,
         q        |-> qname]

\* ProducerBuilder::new
NewBuilder ==
    [ex |-> "", queue |-> "", tx_props |-> DefaultProperties,
     extension |-> "DebugPrinter"]

Init ==
    /\ builder = NewBuilder
    /\ producers = <<>>
    /\ channels = <<>>
    /\ queues = {}
    /\ consumers = {}
    /\ ngen = 0
    /\ inbox = <<>>
    /\ published = <<>>
    /\ ackLog = <<>>
    /\ hookLog = <<>>
    /\ faults = <<>>
    /\ pc = [c \in Callers |-> "idle"]
    /\ cur = [c \in Callers |-> 0]
    /\ calls = <<>>

brokerLogs == <<inbox, published, ackLog, hookLog>>

\* The broker fails at `site`, during call k (0: outside any call).
Fault(site, k) ==
    /\ Len(faults) < MaxFaults
    /\ faults' = Append(faults, [site |-> site, call |-> k])
NoFault == UNCHANGED faults
callState == <<pc, cur, calls>>

---------------------------------------------------------------------------
(* The builder. *)

\* ProducerBuilder::queue
BuilderQueue(q) ==
    /\ builder' = [builder EXCEPT !.queue = q]
    /\ UNCHANGED <<producers, channels, queues, consumers, ngen, faults,
                   brokerLogs, callState>>

\* ProducerBuilder::with_ext
BuilderWithExt(h) ==
    /\ builder' = [builder EXCEPT !.extension = h]
    /\ UNCHANGED <<producers, channels, queues, consumers, ngen, faults,
                   brokerLogs, callState>>

\* build setting reply-to to the target queue instead of the reply queue.
NewProducer_ReplyToTarget(b, tx, rx, q) ==
    [tx |-> tx, rx |-> rx,
     consume |-> [queue |-> q, chan |-> rx, buf |-> <<>>, ended |-> FALSE],
     ex |-> b.ex, queue |-> b.queue,
     tx_props |-> b.tx_props,
     rx_props |-> WithReplyTo(b.tx_props, b.queue),
     extension |-> b.extension]

\* The Producer that build returns, from the two channels and the reply queue.
NewProducer(b, tx, rx, q) ==
    [tx |-> tx, rx |-> rx,
     consume |-> [queue |-> q, chan |-> rx, buf |-> <<>>, ended |-> FALSE],
     ex |-> b.ex, queue |-> b.queue,
     tx_props |-> b.tx_props,
     rx_props |-> WithReplyTo(b.tx_props, q),
     extension |-> b.extension]

\* build declaring its reply queue under a fixed name instead of asking the
\* broker for a server-named one.
Build_FixedReplyName(failAt) ==
    LET s1 == ConnChannel(channels, queues, ngen, builder.queue, DefaultQueueOpts)
        s2 == ConnChannel(s1.channels, s1.queues, s1.ngen, "reply",
                          [DefaultQueueOpts EXCEPT !.exclusive = TRUE,
                                                   !.auto_delete = TRUE])
        cons == [queue |-> s2.q, chan |-> s2.ch, tag |-> "producer"]
    IN  /\ IF failAt = 0 THEN NoFault ELSE Fault("build", 0)
        /\ IF failAt = 1
           THEN UNCHANGED <<channels, queues, ngen, consumers, producers>>
           ELSE IF failAt = 2
           THEN /\ channels' = s1.channels
                /\ queues' = s1.queues
                /\ ngen' = s1.ngen
                /\ UNCHANGED <<consumers, producers>>
           ELSE /\ channels' = s2.channels
                /\ queues' = s2.queues
                /\ ngen' = s2.ngen
                /\ IF failAt = 3
                   THEN UNCHANGED <<consumers, producers>>
                   ELSE /\ consumers' = consumers \cup {cons}
                        /\ producers' =
                               Append(producers,
                                      NewProducer(builder, s1.ch, s2.ch, s2.q))
        /\ UNCHANGED <<builder, brokerLogs, callState>>

\* ProducerBuilder::build.  failAt = 0: every broker step succeeds;
\* failAt = k: the k-th broker step returns an error and build returns it.
\* The steps before the failing one have happened at the broker.
Build(failAt) ==
    LET s1 == ConnChannel(channels, queues, ngen, builder.queue, DefaultQueueOpts)
        s2 == ConnChannel(s1.channels, s1.queues, s1.ngen, "",
                          [DefaultQueueOpts EXCEPT !.exclusive = TRUE,
                                                   !.auto_delete = TRUE])
        cons == [queue |-> s2.q, chan |-> s2.ch, tag |-> "producer"]
    IN  /\ IF failAt = 0 THEN NoFault ELSE Fault("build", 0)
        /\ IF failAt = 1
           THEN UNCHANGED <<channels, queues, ngen, consumers, producers>>
           ELSE IF failAt = 2
           THEN /\ channels' = s1.channels
                /\ queues' = s1.queues
                /\ ngen' = s1.ngen
                /\ UNCHANGED <<consumers, producers>>
           ELSE /\ channels' = s2.channels
                /\ queues' = s2.queues
                /\ ngen' = s2.ngen
                /\ IF failAt = 3
                   THEN UNCHANGED <<consumers, producers>>
                   ELSE /\ consumers' = consumers \cup {cons}
                        /\ producers' =
                               Append(producers,
                                      NewProducer(builder, s1.ch, s2.ch, s2.q))
        /\ UNCHANGED <<builder, brokerLogs, callState>>

---------------------------------------------------------------------------
(* Broker operations used by a Producer. *)

\* The Producers consuming queue `name` whose stream has not ended.
ConsumersOf(ps, name) ==
    {p \in 1..Len(ps) : ps[p].consume.queue = name /\ ~ps[p].consume.ended}

\* The broker hands a message routed to queue `name` to its consumer: the
\* delivery gets the next tag of the consumer's channel and joins the
\* consumer's stream.  req names the request the message answers.
Deliver(ps, chs, name, data, req) ==
    IF ConsumersOf(ps, name) = {}
    THEN [producers |-> ps, channels |-> chs]
    ELSE LET p == CHOOSE x \in ConsumersOf(ps, name) : TRUE
             ch == ps[p].consume.chan
             d == [kind |-> "delivery", tag |-> chs[ch].ntag + 1,
                   data |-> data, chan |-> ch, req |-> req]
         IN  [producers |-> [ps EXCEPT ![p].consume.buf = Append(@, d)],
              channels  |-> [chs EXCEPT ![ch].ntag = @ + 1]]

\* Channel::basic_publish(ex, rkey, _, data, props), accepted by the broker:
\* it is logged, and through the default exchange it reaches the queue named
\* by the routing key, if that is the work queue.
BasicPublish(ex, rkey, data, props, p, k) ==
    /\ published' = Append(published,
                           [ex |-> ex, rkey |-> rkey, data |-> data,
                            props |-> props, by |-> p, call |-> k])
    /\ inbox' = IF ex = "" /\ rkey = WorkQueue
                THEN Append(inbox, [data |-> data, reply_to |-> props.reply_to,
                                    req |-> Len(published) + 1])
                ELSE inbox

\* Channel::basic_ack(tag, _) on channel ch, as the broker receives it.
BasicAck(ch, tag, ok, k) ==
    ackLog' = Append(ackLog, [op |-> "ack", tag |-> tag, chan |-> ch,
                              ok |-> ok, call |-> k])

---------------------------------------------------------------------------
(* The calls on a Producer. *)

\* A Producer handed out without the exclusive borrow.
Borrowed_Shared(p) == FALSE

\* `&mut self`: a call borrows the Producer exclusively until it returns.
Borrowed(p) == \E c \in Callers : pc[c] # "idle" /\ calls[cur[c]].p = p

\* The record of a call, made when it publishes: seen is the tag of the last
\* delivery the broker had handed to the Producer's consumer by then.
NewCall(op, p, c, msg) ==
    [op |-> op, p |-> p, caller |-> c, msg |-> msg,
     seen |-> channels[producers[p].rx].ntag,
     req |-> 0, took |-> <<>>, ended |-> FALSE, hook |-> <<>>, ret |-> <<>>]

\* Idle tasks are interchangeable: the next call is started by the first.
CanStart(c) == pc[c] = "idle" /\ \A c2 \in Callers : c2 < c => pc[c2] # "idle"

\* The call of caller c returns r.
Return(c, cs, r) ==
    /\ calls' = [cs EXCEPT ![cur[c]].ret = <<r>>]
    /\ pc' = [pc EXCEPT ![c] = "idle"]
    /\ cur' = [cur EXCEPT ![c] = 0]

\* Producer::with_ext.  A hook installed after the last call of the run would
\* never be used, so the run installs none then.
WithExt(p, h) ==
    /\ p \in 1..Len(producers)
    /\ ~Borrowed(p)
    /\ Len(calls) < MaxCalls
    /\ producers' = [producers EXCEPT ![p].extension = h]
    /\ UNCHANGED <<builder, channels, queues, consumers, ngen, faults,
                   brokerLogs, callState>>

\* Producer::publish draining a pending reply from the stream as it publishes.
Publish_TakesReply(c, p, msg, ok) ==
    LET k == Len(calls) + 1
        call == NewCall("publish", p, c, msg)
    IN  /\ CanStart(c)
        /\ p \in 1..Len(producers)
        /\ ~Borrowed(p)
        /\ Len(calls) < MaxCalls
        /\ UNCHANGED <<pc, cur>>
        /\ producers' = [producers EXCEPT ![p].consume.buf =
                             IF @ = <<>> THEN @ ELSE Tail(@)]
        /\ IF ok
           THEN /\ BasicPublish(producers[p].ex, producers[p].queue, msg,
                                producers[p].tx_props, p, k)
                /\ calls' = Append(calls, [call EXCEPT !.req = Len(published) + 1,
                                                       !.ret = <<Ok>>])
                /\ NoFault
           ELSE /\ Fault("publish", k)
                /\ calls' = Append(calls,
                       [call EXCEPT !.ret = <<Err(BrokerError("publish", Len(faults) + 1))>>])
                /\ UNCHANGED <<published, inbox>>
        /\ UNCHANGED <<builder, channels, queues, consumers, ngen,
                       ackLog, hookLog>>

\* Producer::publish: one basic_publish with tx_props, whose result is
\* returned as it is.
Publish(c, p, msg, ok) ==
    LET k == Len(calls) + 1
        call == NewCall("publish", p, c, msg)
    IN  /\ CanStart(c)
        /\ p \in 1..Len(producers)
        /\ ~Borrowed(p)
        /\ Len(calls) < MaxCalls
        /\ UNCHANGED <<pc, cur>>
        /\ IF ok
           THEN /\ BasicPublish(producers[p].ex, producers[p].queue, msg,
                                producers[p].tx_props, p, k)
                /\ calls' = Append(calls, [call EXCEPT !.req = Len(published) + 1,
                                                       !.ret = <<Ok>>])
                /\ NoFault
           ELSE /\ Fault("publish", k)
                /\ calls' = Append(calls,
                       [call EXCEPT !.ret = <<Err(BrokerError("publish", Len(faults) + 1))>>])
                /\ UNCHANGED <<published, inbox>>
        /\ UNCHANGED <<builder, producers, channels, queues, consumers, ngen,
                       ackLog, hookLog>>

\* Producer::rpc going on to read the stream after a failed publish.
RpcPublish_IgnoreError(c, p, msg, ok) ==
    LET k == Len(calls) + 1
        call == NewCall("rpc", p, c, msg)
    IN  /\ CanStart(c)
        /\ p \in 1..Len(producers)
        /\ ~Borrowed(p)
        /\ Len(calls) < MaxCalls
        /\ pc' = [pc EXCEPT ![c] = "next"]
        /\ cur' = [cur EXCEPT ![c] = k]
        /\ calls' = Append(calls, call)
        /\ IF ok
           THEN /\ BasicPublish(producers[p].ex, producers[p].queue, msg,
                                producers[p].rx_props, p, k)
                /\ NoFault
           ELSE /\ Fault("publish", k)
                /\ UNCHANGED <<published, inbox>>
        /\ UNCHANGED <<builder, producers, channels, queues, consumers, ngen,
                       ackLog, hookLog>>

\* Producer::rpc up to its first await: basic_publish with rx_props; `?`
\* returns the error of a failed publish.
RpcPublish(c, p, msg, ok) ==
    LET k == Len(calls) + 1
        call == NewCall("rpc", p, c, msg)
    IN  /\ CanStart(c)
        /\ p \in 1..Len(producers)
        /\ ~Borrowed(p)
        /\ Len(calls) < MaxCalls
        /\ IF ok
           THEN /\ BasicPublish(producers[p].ex, producers[p].queue, msg,
                                producers[p].rx_props, p, k)
                /\ calls' = Append(calls, [call EXCEPT !.req = Len(published) + 1])
                /\ pc' = [pc EXCEPT ![c] = "next"]
                /\ cur' = [cur EXCEPT ![c] = k]
                /\ NoFault
           ELSE /\ Fault("publish", k)
                /\ calls' = Append(calls,
                       [call EXCEPT !.ret = <<Err(BrokerError("publish", Len(faults) + 1))>>])
                /\ UNCHANGED <<pc, cur, published, inbox>>
        /\ UNCHANGED <<builder, producers, channels, queues, consumers, ngen,
                       ackLog, hookLog>>

\* Producer::rpc reading the head of the stream without consuming it.
RpcNext_NoPop(c) ==
    LET k == cur[c]
        p == calls[k].p
        s == producers[p].consume
    IN  /\ pc[c] = "next"
        /\ IF s.buf # <<>>
           THEN LET item == Head(s.buf)
                    taken == [calls EXCEPT ![k].took = Append(@, item)]
                IN  IF item.kind = "error"
                    THEN Return(c, taken, Err(item.err))
                    ELSE /\ calls' = taken
                         /\ pc' = [pc EXCEPT ![c] = "recv"]
                         /\ UNCHANGED cur
           ELSE /\ s.ended
                /\ Return(c, [calls EXCEPT ![k].ended = TRUE], Ok)
        /\ UNCHANGED <<builder, producers, channels, queues, consumers, ngen,
                       faults, brokerLogs>>

\* Producer::rpc waiting for a delivery even after the stream has ended.
RpcNext_WaitsOnEnd(c) ==
    LET k == cur[c]
        p == calls[k].p
        s == producers[p].consume
    IN  /\ pc[c] = "next"
        /\ s.buf # <<>>
        /\ LET item == Head(s.buf)
               taken == [calls EXCEPT ![k].took = Append(@, item)]
           IN  /\ producers' = [producers EXCEPT ![p].consume.buf = Tail(@)]
               /\ IF item.kind = "error"
                  THEN Return(c, taken, Err(item.err))
                  ELSE /\ calls' = taken
                       /\ pc' = [pc EXCEPT ![c] = "recv"]
                       /\ UNCHANGED cur
        /\ UNCHANGED <<builder, channels, queues, consumers, ngen, faults,
                       brokerLogs>>

\* Producer::rpc acknowledging a delivery as it takes it, before the hook
\* has seen it.
RpcNext_AcksOnTake(c) ==
    LET k == cur[c]
        p == calls[k].p
        s == producers[p].consume
    IN  /\ pc[c] = "next"
        /\ IF s.buf # <<>>
           THEN LET item == Head(s.buf)
                    taken == [calls EXCEPT ![k].took = Append(@, item)]
                IN  /\ producers' = [producers EXCEPT ![p].consume.buf = Tail(@)]
                    /\ IF item.kind = "error"
                       THEN /\ Return(c, taken, Err(item.err))
                            /\ UNCHANGED ackLog
                       ELSE /\ calls' = taken
                            /\ pc' = [pc EXCEPT ![c] = "recv"]
                            /\ BasicAck(producers[p].rx, item.tag, TRUE, k)
                            /\ UNCHANGED cur
           ELSE /\ s.ended
                /\ Return(c, [calls EXCEPT ![k].ended = TRUE], Ok)
                /\ UNCHANGED <<producers, ackLog>>
        /\ UNCHANGED <<builder, channels, queues, consumers, ngen, faults,
                       inbox, published, hookLog>>

\* Producer::rpc at self.consume.next().await: the head of the stream is
\* taken; an error item is returned; None (the stream has ended) falls
\* through to Ok(()).  An empty stream that has not ended keeps rpc waiting.
RpcNext(c) ==
    LET k == cur[c]
        p == calls[k].p
        s == producers[p].consume
    IN  /\ pc[c] = "next"
        /\ IF s.buf # <<>>
           THEN LET item == Head(s.buf)
                    taken == [calls EXCEPT ![k].took = Append(@, item)]
                IN  /\ producers' = [producers EXCEPT ![p].consume.buf = Tail(@)]
                    /\ IF item.kind = "error"
                       THEN Return(c, taken, Err(item.err))
                       ELSE /\ calls' = taken
                            /\ pc' = [pc EXCEPT ![c] = "recv"]
                            /\ UNCHANGED cur
           ELSE /\ s.ended
                /\ Return(c, [calls EXCEPT ![k].ended = TRUE], Ok)
                /\ UNCHANGED producers
        /\ UNCHANGED <<builder, channels, queues, consumers, ngen, faults,
                       brokerLogs>>

\* Producer::recv judging the reply with the hook the builder holds, not the
\* one installed in the Producer.
RpcRecv_BuilderHook(c) ==
    LET k == cur[c]
        p == calls[k].p
        d == calls[k].took[1]
        r == ExtensionRecv(builder.extension, d.data)
        judged == [calls EXCEPT ![k].hook = <<r>>]
    IN  /\ pc[c] = "recv"
        /\ hookLog' = Append(hookLog, [hook |-> builder.extension,
                                       data |-> d.data, call |-> k])
        /\ IF r = "Ok"
           THEN /\ calls' = judged
                /\ pc' = [pc EXCEPT ![c] = "ack"]
                /\ UNCHANGED cur
           ELSE Return(c, judged, Ok)
        /\ producers' = [producers EXCEPT
                             ![p].extension = ExtensionAfter(@, d.data)]
        /\ UNCHANGED <<builder, channels, queues, consumers, ngen,
                       faults, inbox, published, ackLog>>

\* Producer::recv on a hook that build shared with the builder and the other
\* Producers instead of cloning it: what recv changes shows in all of them.
RpcRecv_SharedHook(c) ==
    LET k == cur[c]
        p == calls[k].p
        d == calls[k].took[1]
        h == producers[p].extension
        r == ExtensionRecv(h, d.data)
        judged == [calls EXCEPT ![k].hook = <<r>>]
    IN  /\ pc[c] = "recv"
        /\ hookLog' = Append(hookLog, [hook |-> h, data |-> d.data, call |-> k])
        /\ IF r = "Ok"
           THEN /\ calls' = judged
                /\ pc' = [pc EXCEPT ![c] = "ack"]
                /\ UNCHANGED cur
           ELSE Return(c, judged, Ok)
        /\ producers' = [q \in 1..Len(producers) |->
                            IF producers[q].extension = h
                            THEN [producers[q] EXCEPT
                                      !.extension = ExtensionAfter(h, d.data)]
                            ELSE producers[q]]
        /\ builder' = IF builder.extension = h
                      THEN [builder EXCEPT
                                !.extension = ExtensionAfter(h, d.data)]
                      ELSE builder
        /\ UNCHANGED <<channels, queues, consumers, ngen,
                       faults, inbox, published, ackLog>>

\* Producer::recv at self.extension.recv(msg.data).await: the hook judges the
\* payload, and may change its own state; when it fails nothing is sent to
\* the broker and recv returns Ok(()), which rpc returns.
RpcRecv(c) ==
    LET k == cur[c]
        p == calls[k].p
        d == calls[k].took[1]
        r == ExtensionRecv(producers[p].extension, d.data)
        judged == [calls EXCEPT ![k].hook = <<r>>]
    IN  /\ pc[c] = "recv"
        /\ hookLog' = Append(hookLog, [hook |-> producers[p].extension,
                                       data |-> d.data, call |-> k])
        /\ IF r = "Ok"
           THEN /\ calls' = judged
                /\ pc' = [pc EXCEPT ![c] = "ack"]
                /\ UNCHANGED cur
           ELSE Return(c, judged, Ok)
        /\ producers' = [producers EXCEPT
                             ![p].extension = ExtensionAfter(@, d.data)]
        /\ UNCHANGED <<builder, channels, queues, consumers, ngen,
                       faults, inbox, published, ackLog>>

\* Producer::recv acknowledging on the tx channel instead of the rx channel.
RpcAck_OnTx(c, ok) ==
    LET k == cur[c]
        p == calls[k].p
        d == calls[k].took[1]
    IN  /\ pc[c] = "ack"
        /\ BasicAck(producers[p].tx, d.tag, ok, k)
        /\ IF ok
           THEN /\ Return(c, calls, Ok)
                /\ NoFault
           ELSE /\ Fault("ack", k)
                /\ Return(c, calls, Err(BrokerError("ack", Len(faults) + 1)))
        /\ UNCHANGED <<builder, producers, channels, queues, consumers, ngen,
                       inbox, published, hookLog>>

\* Producer::recv at self.rx.basic_ack(delivery_tag, _).await: its error is
\* returned, otherwise Ok(()).
RpcAck(c, ok) ==
    LET k == cur[c]
        p == calls[k].p
        d == calls[k].took[1]
    IN  /\ pc[c] = "ack"
        /\ BasicAck(producers[p].rx, d.tag, ok, k)
        /\ IF ok
           THEN /\ Return(c, calls, Ok)
                /\ NoFault
           ELSE /\ Fault("ack", k)
                /\ Return(c, calls, Err(BrokerError("ack", Len(faults) + 1)))
        /\ UNCHANGED <<builder, producers, channels, queues, consumers, ngen,
                       inbox, published, hookLog>>

---------------------------------------------------------------------------
(* The peer and the broker's side of the reply stream. *)

\* The peer consuming the work queue processes the oldest request with
\* EchoProcessor and publishes the reply to the request's reply-to, if it has
\* one; the broker delivers it to the consumer of that queue.
PeerProcess ==
    /\ inbox # <<>>
    /\ LET m == Head(inbox)
           reply == EchoProcess(m.data)
           out == IF m.reply_to # <<>> /\ reply # <<>>
                  THEN Deliver(producers, channels, m.reply_to[1], reply[1], m.req)
                  ELSE [producers |-> producers, channels |-> channels]
       IN  /\ producers' = out.producers
           /\ channels' = out.channels
    /\ inbox' = Tail(inbox)
    /\ UNCHANGED <<builder, queues, consumers, ngen, faults, published,
                   ackLog, hookLog, callState>>

\* The stream of Producer p can still be read by a call of the run; the
\* broker's faults on a stream nobody reads any more are not followed.
Observed(p) == Borrowed(p) \/ Len(calls) < MaxCalls

\* The consumer of Producer p meets a broker error: the stream yields an
\* error item.  rpc returns it and keeps the Producer and its consumer, so
\* the stream goes on behind the error item.
StreamError(p) ==
    /\ p \in 1..Len(producers)
    /\ ~producers[p].consume.ended
    /\ Observed(p)
    /\ Fault("stream", 0)
    /\ producers' = [producers EXCEPT ![p].consume.buf =
           Append(@, [kind |-> "error",
                      err |-> BrokerError("stream", Len(faults) + 1)])]
    /\ UNCHANGED <<builder, channels, queues, consumers, ngen, brokerLogs,
                   callState>>

\* The consumer of Producer p is cancelled: once the buffered items are
\* taken the stream yields None.
StreamEnd(p) ==
    /\ p \in 1..Len(producers)
    /\ ~producers[p].consume.ended
    /\ Observed(p)
    /\ Fault("end", 0)
    /\ producers' = [producers EXCEPT ![p].consume.ended = TRUE]
    /\ UNCHANGED <<builder, channels, queues, consumers, ngen, brokerLogs,
                   callState>>

Next ==
    \/ \E q \in {WorkQueue} : CanBuild /\ BuilderQueue(q)
    \/ \E h \in Hooks : CanBuild /\ BuilderWithExt(h)
    \/ \E failAt \in 0..3 : CanBuild /\ Build(failAt)
    \/ \E p \in ProducerIds, h \in Hooks : WithExt(p, h)
    \/ \E c \in Callers, p \in ProducerIds, msg \in Payloads, ok \in BOOLEAN :
           Publish(c, p, msg, ok)
    \/ \E c \in Callers, p \in ProducerIds, msg \in Payloads, ok \in BOOLEAN :
           RpcPublish(c, p, msg, ok)
    \/ \E c \in Callers : RpcNext(c)
    \/ \E c \in Callers : RpcRecv(c)
    \/ \E c \in Callers, ok \in BOOLEAN : RpcAck(c, ok)
    \/ PeerProcess
    \/ \E p \in ProducerIds : StreamError(p)
    \/ \E p \in ProducerIds : StreamEnd(p)

Spec == Init /\ [][Next]_vars

---------------------------------------------------------------------------
(* Vocabulary of the properties. *)

CallIds == 1..Len(calls)
Returned(k) == calls[k].ret # <<>>
IsRpc(k) == calls[k].op = "rpc"
\* Call k took a delivery from the reply stream.
TookDelivery(k) == calls[k].took # <<>> /\ calls[k].took[1].kind = "delivery"
\* Call k took an error item from the reply stream.
TookError(k) == calls[k].took # <<>> /\ calls[k].took[1].kind = "error"
\* The acknowledgment actions the broker received for delivery `tag` of
\* channel ch.
AcksOf(ch, tag) ==
    {i \in 1..Len(ackLog) : ackLog[i].chan = ch /\ ackLog[i].tag = tag}
AcksBy(k) == {i \in 1..Len(ackLog) : ackLog[i].call = k}
PublishesBy(k) == {i \in 1..Len(published) : published[i].call = k}
HooksBy(k) == {i \in 1..Len(hookLog) : hookLog[i].call = k}

\* C1: every rpc call that has returned after taking a delivery its hook
\* accepted has sent basic_ack with that delivery's tag on the channel the
\* delivery was consumed on.
C1_AckOnHookSuccess ==
    \A k \in CallIds :
        (IsRpc(k) /\ Returned(k) /\ TookDelivery(k) /\ calls[k].hook = <<"Ok">>)
        => \E i \in AcksBy(k) :
               /\ ackLog[i].op = "ack"
               /\ ackLog[i].tag = calls[k].took[1].tag
               /\ ackLog[i].chan = calls[k].took[1].chan

C1_Witness ==
    \E k \in CallIds :
        /\ IsRpc(k) /\ Returned(k) /\ TookDelivery(k)
        /\ calls[k].hook = <<"Ok">>
        /\ calls[k].ret = <<Ok>>
        /\ \E i \in AcksBy(k) : ackLog[i].ok

\* C2: every rpc call that has returned after taking a delivery its hook
\* refused has sent exactly one negative acknowledgment for that delivery.
C2_NackOnceOnHookFailure ==
    \A k \in CallIds :
        (IsRpc(k) /\ Returned(k) /\ TookDelivery(k) /\ calls[k].hook = <<"Err">>)
        => Cardinality({i \in AcksOf(calls[k].took[1].chan, calls[k].took[1].tag) :
                            ackLog[i].op = "nack"}) = 1

\* C3: no delivery (a tag of a channel) has received more than one
\* acknowledgment action.
C3_AtMostOneAckPerDelivery ==
    \A i, j \in 1..Len(ackLog) :
        (ackLog[i].chan = ackLog[j].chan /\ ackLog[i].tag = ackLog[j].tag)
        => i = j

\* Two rpc calls have each acknowledged a delivery.
C3_Witness ==
    \E i, j \in 1..Len(ackLog) : i # j /\ ackLog[i].call # ackLog[j].call

RpcRequestsOf(p) ==
    {r \in 1..Len(published) :
        published[r].by = p /\ published[r].props.reply_to # <<>>}
\* The requests whose replies the calls before call k took.
TakenBefore(k) ==
    {calls[j].took[1].req : j \in {i \in 1..(k - 1) : TookDelivery(i)}}
\* The requests call k's Producer had published when call k had published
\* its own, and whose replies no earlier call took.
Unanswered(k) ==
    {r \in RpcRequestsOf(calls[k].p) : r <= calls[k].req} \ TakenBefore(k)

C5_RejectedDistinctFromAccepted ==
    \A k1, k2 \in CallIds :
        (/\ IsRpc(k1) /\ Returned(k1) /\ calls[k1].hook = <<"Err">>
         /\ IsRpc(k2) /\ Returned(k2) /\ calls[k2].hook = <<"Ok">>)
        => calls[k1].ret # calls[k2].ret

\* C6: an rpc call that found its reply stream ended returns an error.
C6_StreamEndReturnsError ==
    \A k \in CallIds :
        (IsRpc(k) /\ Returned(k) /\ calls[k].ended)
        => calls[k].ret[1].tag = "Err"

\* C7: a call that met a broker error (at publish, on the stream, at ack) has
\* returned that error, and no call repeats a step: a call publishes, takes
\* from the stream, invokes the hook and acknowledges at most once each; after
\* a failed publish nothing was published, taken, judged or acknowledged;
\* after a stream error nothing was judged or acknowledged; after a failed
\* ack that ack is the only one.
C7_ErrorsReturnedWithoutRetry ==
    \A k \in CallIds :
        /\ Cardinality(PublishesBy(k)) <= 1
        /\ Len(calls[k].took) <= 1
        /\ Cardinality(HooksBy(k)) <= 1
        /\ Cardinality(AcksBy(k)) <= 1
        /\ \A f \in 1..Len(faults) :
               faults[f].call = k =>
                   /\ calls[k].ret = <<Err(BrokerError(faults[f].site, f))>>
                   /\ faults[f].site = "publish" =>
                          /\ PublishesBy(k) = {}
                          /\ calls[k].took = <<>> /\ ~calls[k].ended
                          /\ HooksBy(k) = {} /\ AcksBy(k) = {}
                   /\ faults[f].site = "ack" =>
                          /\ Cardinality(PublishesBy(k)) = 1
                          /\ \A i \in AcksBy(k) : ~ackLog[i].ok
        /\ TookError(k) =>
               /\ calls[k].ret = <<Err(calls[k].took[1].err)>>
               /\ Cardinality(PublishesBy(k)) = 1
               /\ HooksBy(k) = {} /\ AcksBy(k) = {}

\* An rpc call has returned the error of a failed ack.
C7_Witness ==
    \E k \in CallIds, f \in 1..Len(faults) :
        /\ IsRpc(k) /\ faults[f].call = k /\ faults[f].site = "ack"
        /\ calls[k].ret = <<Err(BrokerError("ack", f))>>

\* C8: the delivery an rpc call takes answers the request that call published.
C8_EachCallTakesItsOwnReply ==
    \A k \in CallIds :
        (IsRpc(k) /\ TookDelivery(k)) => calls[k].took[1].req = calls[k].req

\* The calls in flight on Producer p: started and not yet returned.
InFlight(p) == {c \in Callers : pc[c] # "idle" /\ calls[cur[c]].p = p}

\* C9: at most one call is in flight on a Producer.
C9_SingleFlight ==
    \A p \in 1..Len(producers) : Cardinality(InFlight(p)) <= 1

\* An rpc call waits for its reply on a Producer while another caller is
\* ready to start a call and only the borrow of that Producer keeps it out.
C9_Witness ==
    \E c1, c2 \in Callers :
        /\ pc[c1] = "next" /\ IsRpc(cur[c1])
        /\ CanStart(c2) /\ Len(calls) < MaxCalls
        /\ Borrowed(calls[cur[c1]].p)

\* The reply queue Producer p declared at build: exclusive, auto-delete, and
\* consumed on p's rx channel.
DeclaredReplyQueue(p, name) ==
    /\ [name |-> name, exclusive |-> TRUE, auto_delete |-> TRUE] \in queues
    /\ [queue |-> name, chan |-> producers[p].rx, tag |-> "producer"] \in consumers

C10_ReplyToInv ==
    \A i \in 1..Len(published) :
        LET m == published[i]
        IN  IF calls[m.call].op = "rpc"
            THEN /\ Len(m.props.reply_to) = 1
                 /\ DeclaredReplyQueue(m.by, m.props.reply_to[1])
                 /\ m.props = producers[m.by].rx_props
            ELSE /\ m.props = builder.tx_props
                 /\ m.props.reply_to = <<>>

C10_ReplyToStep ==
    \A p \in 1..Len(producers) :
        /\ producers'[p].rx_props = producers[p].rx_props
        /\ producers'[p].consume.queue = producers[p].consume.queue

\* C10: every request rpc publishes carries as reply-to the name of the reply
\* queue declared when its Producer was built, a name that never changes;
\* every message publish publishes carries the builder's plain properties,
\* without reply-to.
C10_ReplyToIsDeclaredQueue == []C10_ReplyToInv /\ [][C10_ReplyToStep]_vars

\* An rpc request and a publish message have both been published.
C10_Witness ==
    \E i, j \in 1..Len(published) :
        /\ calls[published[i].call].op = "rpc"
        /\ calls[published[j].call].op = "publish"

---------------------------------------------------------------------------
\* A step in which a publish call is made: publish has no await but the
\* basic_publish, so the call starts and returns in that step.
PublishStep ==
    /\ Len(calls') = Len(calls) + 1
    /\ calls'[Len(calls')].op = "publish"

C11_PublishCallsInv ==
    \A k \in CallIds :
        calls[k].op = "publish" =>
            /\ Returned(k)
            /\ calls[k].took = <<>> /\ ~calls[k].ended /\ calls[k].hook = <<>>
            /\ HooksBy(k) = {} /\ AcksBy(k) = {}
            /\ Cardinality(PublishesBy(k)) <= 1

C11_PublishStepFrame ==
    PublishStep =>
        LET k == Len(calls')
            p == calls'[k].p
        IN  /\ producers' = producers
            /\ channels' = channels
            /\ hookLog' = hookLog
            /\ ackLog' = ackLog
            /\ IF calls'[k].ret = <<Ok>>
               THEN /\ faults' = faults
                    /\ published' =
                         Append(published,
                                [ex |-> producers[p].ex, rkey |-> producers[p].queue,
                                 data |-> calls'[k].msg,
                                 props |-> producers[p].tx_props,
                                 by |-> p, call |-> k])
               ELSE /\ published' = published
                    /\ Len(faults') = Len(faults) + 1

\* C11: a publish call performs exactly one basic_publish (accepted by the
\* broker, or failed and returned as an error) and nothing else: it takes no
\* item from the reply stream, invokes no hook and issues no acknowledgment,
\* and the pending deliveries of the reply stream are the same before and
\* after it.
C11_PublishOnlyPublishes ==
    []C11_PublishCallsInv /\ [][C11_PublishStepFrame]_vars

\* A publish call has succeeded while a reply to an earlier request was
\* pending in the stream of its Producer, and the reply is still pending.
C11_Witness ==
    \E k \in CallIds :
        /\ calls[k].op = "publish" /\ calls[k].ret = <<Ok>>
        /\ \E i \in 1..Len(producers[calls[k].p].consume.buf) :
               LET d == producers[calls[k].p].consume.buf[i]
               IN  d.kind = "delivery" /\ d.req < calls[k].req

---------------------------------------------------------------------------
\* A step that replaces the hook of Producer p without judging a reply:
\* a with_ext call.
WithExtStep(p) ==
    /\ p \in 1..Len(producers)
    /\ Len(producers') = Len(producers)
    /\ producers'[p].extension # producers[p].extension
    /\ hookLog' = hookLog

C12_WithExtFrame ==
    \A p \in ProducerIds :
        WithExtStep(p) =>
            /\ producers' =
                   [producers EXCEPT ![p].extension = producers'[p].extension]
            /\ UNCHANGED <<builder, channels, queues, consumers, ngen, inbox,
                           published, ackLog, hookLog, faults, pc, cur, calls>>

C12_JudgedByInstalledHook ==
    Len(hookLog') = Len(hookLog) + 1 =>
        LET e == hookLog'[Len(hookLog')]
            k == e.call
        IN  /\ e.hook = producers[calls[k].p].extension
            /\ e.data = calls[k].took[1].data
            /\ calls'[k].hook = <<ExtensionRecv(producers[calls[k].p].extension,
                                                e.data)>>

\* C12: a reply is judged by the hook installed in its Producer when it is
\* judged, that is by the hook of the latest with_ext (or of build when there
\* was none), and a with_ext call changes nothing but that hook: the
\* acknowledgments sent, the deliveries pending in the stream, the
\* destination, the reply-to name and the stream stay as they are.
C12_WithExtReplacesOnlyTheHook ==
    [][C12_WithExtFrame /\ C12_JudgedByInstalledHook]_vars

\* A reply was judged by the hook the Producer was built with, then a later
\* reply by another hook, installed by with_ext in between.
C12_Witness ==
    \E i, j \in 1..Len(hookLog) :
        /\ j < i
        /\ hookLog[j].hook = builder.extension
        /\ hookLog[i].hook # builder.extension
        /\ AcksBy(hookLog[j].call) # {} \/ AcksBy(hookLog[i].call) # {}

---------------------------------------------------------------------------
\* A step in which a build call fails at one of its broker steps.
BuildFailedStep ==
    /\ Len(faults') = Len(faults) + 1
    /\ faults'[Len(faults')].site = "build"

\* The reply queues (exclusive, auto-delete) declared at the broker.
ReplyQueues(qs) == {q \in qs : q.exclusive /\ q.auto_delete}

\* C13: a build call that fails at a broker step returns no Producer and
\* leaves at the broker no reply queue and no consumer that it declared or
\* started in its earlier steps.
C13_BuildAllOrNothing ==
    [][BuildFailedStep =>
          /\ producers' = producers
          /\ consumers' = consumers
          /\ ReplyQueues(queues') = ReplyQueues(queues)]_vars

---------------------------------------------------------------------------
(* Several Producers of one builder. *)

\* The hooks given to the builder and the Producers when they are compared.
BuildHooks == {"DebugPrinter", "AcceptOnce"}
MoreCanBuild == Len(producers) < MaxProducers

\* The builder builds up to MaxProducers Producers, between changes of its
\* configuration and builds failing at basic_consume; one task calls rpc on
\* them, the peer
\* answers, and Producers are given a fresh AcceptOnce hook.
NextBuild ==
    \/ \E q \in {WorkQueue} : MoreCanBuild /\ BuilderQueue(q)
    \/ \E h \in BuildHooks : MoreCanBuild /\ BuilderWithExt(h)
    \/ \E failAt \in {0, 3} : MoreCanBuild /\ Build(failAt)
    \/ \E p \in 1..MaxProducers : WithExt(p, "AcceptOnce")
    \/ \E p \in 1..MaxProducers : RpcPublish(1, p, 1, TRUE)
    \/ RpcNext(1)
    \/ RpcRecv(1)
    \/ RpcAck(1, TRUE)
    \/ PeerProcess

SpecBuild == Init /\ [][NextBuild]_vars

\* C14: any two Producers have different reply queues and different rx
\* channels; the reply queue of each is declared exclusive and auto-delete,
\* is the one its reply-to names, and has one consumer, the one started on
\* the rx channel of that Producer.
C14_ReplyQueuesArePrivate ==
    \A p \in 1..Len(producers) :
        LET name == producers[p].consume.queue
        IN  /\ producers[p].rx_props.reply_to = <<name>>
            /\ producers[p].consume.chan = producers[p].rx
            /\ \E q \in queues :
                   q.name = name /\ q.exclusive /\ q.auto_delete
            /\ \A q \in queues : q.name = name => q.exclusive /\ q.auto_delete
            /\ {c \in consumers : c.queue = name} =
                   {[queue |-> name, chan |-> producers[p].rx,
                     tag |-> "producer"]}
            /\ \A p2 \in 1..Len(producers) :
                   p2 # p => /\ producers[p2].consume.queue # name
                             /\ producers[p2].rx # producers[p].rx
                             /\ producers[p2].tx # producers[p].rx

\* Two Producers were built by the same builder, with a failed build that
\* had declared a reply queue before them or between them.
C14_Witness ==
    /\ Len(producers) >= 2
    /\ Cardinality(ReplyQueues(queues)) > Len(producers)

---------------------------------------------------------------------------
(* Progress of rpc. *)

\* The executor polls a call again once what it awaits is ready: a ready
\* stream item (or the end of the stream) is taken, the hook returns, and the
\* broker answers the acknowledgment.
Fairness ==
    \A c \in Callers :
        /\ WF_vars(RpcNext(c))
        /\ WF_vars(RpcRecv(c))
        /\ WF_vars(\E ok \in BOOLEAN : RpcAck(c, ok))

SpecFair == Init /\ [][Next]_vars /\ Fairness

\* Caller c has published its request and awaits the stream of its Producer.
AwaitsStream(c) == pc[c] = "next"
StreamOf(c) == producers[calls[cur[c]].p].consume
StreamSilent(c) == StreamOf(c).buf = <<>> /\ ~StreamOf(c).ended

\* While the stream is silent no step makes the waiting call return.
C15_SilentStreamStep ==
    \A c \in Callers :
        AwaitsStream(c) /\ StreamSilent(c) =>
            /\ pc'[c] = "next"
            /\ cur'[c] = cur[c]
            /\ calls'[cur[c]].ret = <<>>

\* C15: an rpc call that has published its request does not return as long as
\* its stream holds no item and has not ended; once the stream holds an item
\* (a delivery or an error) or has ended, the call returns.
C15_RpcReturnsIffStreamYields ==
    /\ [][C15_SilentStreamStep]_vars
    /\ \A c \in Callers :
           (AwaitsStream(c) /\ ~StreamSilent(c)) ~> (pc[c] = "idle")

\* A call waits on a silent stream and its request has been lost (the
\* destination is no queue), so no reply will come.
C15_Witness ==
    \E c \in Callers :
        /\ AwaitsStream(c) /\ StreamSilent(c)
        /\ inbox = <<>>
        /\ producers[calls[cur[c]].p].queue # WorkQueue

---------------------------------------------------------------------------
(* The Consumer. *)

\* MessageProcess::process returns Ok(reply bytes) or a MessageError.
ProcessOutcomes == {"Continue", "Drop", "Reject", "Nack"}

\* The channel the Consumer of the work queue consumes and acknowledges on.
ConsumerChan == 0

\* A Consumer that acknowledges a delivery its hook asked to drop.
ConsumerProcess_AckOnDrop(o) ==
    /\ inbox # <<>>
    /\ LET m == Head(inbox)
       IN  /\ hookLog' = Append(hookLog, [hook |-> "Process", data |-> m.data,
                                          call |-> 0, tag |-> m.req,
                                          outcome |-> o])
           /\ ackLog' = Append(ackLog, [op |-> "ack", tag |-> m.req,
                                        chan |-> ConsumerChan, ok |-> TRUE,
                                        call |-> 0])
    /\ inbox' = Tail(inbox)
    /\ UNCHANGED <<builder, producers, channels, queues, consumers, ngen,
                   faults, published, callState>>

\* The Consumer of the work queue takes its oldest delivery (the broker's
\* identifier of the delivery is the number of the request) and runs the
\* Process hook, whose outcome is o; a Continue outcome carries the reply of
\* EchoProcessor.
\*   Continue: the reply is published to the delivery's reply-to, if it has
\*             one, and the delivery is acknowledged;
\*   Reject:   the delivery is rejected, nothing is published;
\*   Nack:     the delivery is negatively acknowledged, nothing is published;
\*   Drop:     nothing is sent to the broker.
ConsumerProcess(o) ==
    /\ inbox # <<>>
    /\ LET m == Head(inbox)
           reply == EchoProcess(m.data)
           replies == o = "Continue" /\ m.reply_to # <<>> /\ reply # <<>>
           out == IF replies
                  THEN Deliver(producers, channels, m.reply_to[1], reply[1], m.req)
                  ELSE [producers |-> producers, channels |-> channels]
       IN  /\ hookLog' = Append(hookLog, [hook |-> "Process", data |-> m.data,
                                          call |-> 0, tag |-> m.req,
                                          outcome |-> o])
           /\ published' =
                  IF replies
                  THEN Append(published,
                              [ex |-> "", rkey |-> m.reply_to[1],
                               data |-> reply[1], props |-> DefaultProperties,
                               by |-> 0, call |-> 0, re |-> m.req])
                  ELSE published
           /\ producers' = out.producers
           /\ channels' = out.channels
           /\ ackLog' =
                  IF o = "Drop" THEN ackLog
                  ELSE Append(ackLog,
                              [op |-> IF o = "Continue" THEN "ack"
                                      ELSE IF o = "Reject" THEN "reject"
                                      ELSE "nack",
                               tag |-> m.req, chan |-> ConsumerChan,
                               ok |-> TRUE, call |-> 0])
    /\ inbox' = Tail(inbox)
    /\ UNCHANGED <<builder, queues, consumers, ngen, faults, callState>>

\* A Producer publishes and calls rpc; the Consumer processes each request
\* with a hook that may return any outcome.
NextConsumer ==
    \/ \E q \in {WorkQueue} : CanBuild /\ BuilderQueue(q)
    \/ CanBuild /\ Build(0)
    \/ \E c \in Callers, p \in ProducerIds, msg \in Payloads :
           Publish(c, p, msg, TRUE)
    \/ \E c \in Callers, p \in ProducerIds, msg \in Payloads :
           RpcPublish(c, p, msg, TRUE)
    \/ \E c \in Callers : RpcNext(c)
    \/ \E c \in Callers : RpcRecv(c)
    \/ \E c \in Callers : RpcAck(c, TRUE)
    \/ \E o \in ProcessOutcomes : ConsumerProcess(o)

SpecConsumer == Init /\ [][NextConsumer]_vars

\* The Process hook invocations whose outcome was Drop.
Dropped == {i \in 1..Len(hookLog) :
                hookLog[i].call = 0 /\ hookLog[i].outcome = "Drop"}

\* C16: a delivery for which the Process hook returned Drop gets no ack, no
\* nack and no reject from the Consumer, and no reply to it is published or
\* delivered, in any later state.
C16_DropSendsNothing ==
    \A i \in Dropped :
        LET tag == hookLog[i].tag
        IN  /\ \A j \in 1..Len(ackLog) :
                   ~(ackLog[j].chan = ConsumerChan /\ ackLog[j].tag = tag)
            /\ \A j \in 1..Len(published) :
                   ~(published[j].by = 0 /\ published[j].re = tag)
            /\ \A p \in 1..Len(producers) :
                   \A j \in 1..Len(producers[p].consume.buf) :
                       producers[p].consume.buf[j].req # tag
            /\ \A k \in CallIds :
                   \A j \in 1..Len(calls[k].took) : calls[k].took[j].req # tag

\* A request was dropped, and a later request was answered and acknowledged
\* by the Consumer.
C16_Witness ==
    \E i \in Dropped :
        \E j \in 1..Len(ackLog), r \in 1..Len(published) :
            /\ ackLog[j].chan = ConsumerChan
            /\ ackLog[j].op = "ack"
            /\ ackLog[j].tag > hookLog[i].tag
            /\ published[r].by = 0 /\ published[r].re = ackLog[j].tag

---------------------------------------------------------------------------
\* build gives the new Producer the builder's hook and changes neither the
\* builder nor the hook of a Producer built before.
C17_BuildClonesHook ==
    Len(producers') = Len(producers) + 1 =>
        /\ producers'[Len(producers')].extension = builder.extension
        /\ builder' = builder
        /\ \A q \in 1..Len(producers) :
               producers'[q].extension = producers[q].extension

\* A step that changes the hook of Producer p (with_ext replacing it, or recv
\* changing its state) changes the hook of nobody else.
C17_HookChangeIsLocal ==
    \A p \in 1..Len(producers) :
        producers'[p].extension # producers[p].extension =>
            /\ builder'.extension = builder.extension
            /\ \A q \in 1..Len(producers) :
                   q # p => producers'[q].extension = producers[q].extension

\* C17: hooks are independent per instance: build installs the builder's hook
\* in the new Producer and leaves the builder and the earlier Producers as
\* they are, and replacing the hook of a Producer or a change of its state
\* during rpc changes neither the builder's hook nor any other Producer's.
C17_HooksIndependent ==
    [][C17_BuildClonesHook /\ C17_HookChangeIsLocal]_vars

\* The builder and two of its Producers got the same AcceptOnce hook; an rpc
\* call spent the hook of one of them, and the other's and the builder's are
\* still unspent.
C17_Witness ==
    \E p, q \in 1..Len(producers) :
        /\ producers[p].extension = "AcceptOnceSpent"
        /\ producers[q].extension = "AcceptOnce"
        /\ builder.extension = "AcceptOnce"
        /\ \E i \in 1..Len(hookLog) :
               hookLog[i].hook = "AcceptOnce" /\ calls[hookLog[i].call].p = p

---------------------------------------------------------------------------
\* The rpc calls of one Producer take deliveries in the order of their tags.
C18_TakenInDeliveryOrder ==
    \A k1, k2 \in CallIds :
        /\ k1 < k2 /\ calls[k1].p = calls[k2].p
        /\ TookDelivery(k1) /\ TookDelivery(k2)
        => calls[k1].took[1].tag < calls[k2].took[1].tag

\* C18: the stream of a Producer is read in delivery order, and the delivery
\* an rpc call takes as its reply is the first one that arrived after the call
\* published its request, never one that had arrived before.
C18_ReplyArrivedAfterRequest ==
    /\ C18_TakenInDeliveryOrder
    /\ \A k \in CallIds :
           IsRpc(k) /\ TookDelivery(k) =>
               calls[k].took[1].tag = calls[k].seen + 1

---------------------------------------------------------------------------
\* The failed basic_publish attempts of call k.
PublishFaultsBy(k) ==
    {i \in 1..Len(faults) : faults[i].site = "publish" /\ faults[i].call = k}

\* What has happened in an rpc call, in every state: one publish attempt; at
\* most one item taken, and only after an accepted publish; at most one hook
\* invocation, on the payload of the delivery taken; at most one
\* acknowledgment, of the delivery taken and after the hook's verdict; and
\* none of these in a call that found the stream ended.
C19_StepsInv ==
    \A k \in CallIds :
        IsRpc(k) =>
            /\ Cardinality(PublishesBy(k)) + Cardinality(PublishFaultsBy(k)) = 1
            /\ PublishesBy(k) = IF calls[k].req = 0 THEN {} ELSE {calls[k].req}
            /\ Len(calls[k].took) <= 1
            /\ calls[k].took # <<>> => PublishesBy(k) # {}
            /\ Cardinality(HooksBy(k)) <= 1
            /\ HooksBy(k) # {} <=> calls[k].hook # <<>>
            /\ \A i \in HooksBy(k) :
                   TookDelivery(k) /\ hookLog[i].data = calls[k].took[1].data
            /\ Cardinality(AcksBy(k)) <= 1
            /\ \A i \in AcksBy(k) :
                   /\ calls[k].hook = <<"Ok">>
                   /\ TookDelivery(k) /\ ackLog[i].tag = calls[k].took[1].tag
            /\ calls[k].ended =>
                   calls[k].took = <<>> /\ HooksBy(k) = {} /\ AcksBy(k) = {}

\* The order of the steps: an item is taken by a call that has published, in
\* a step that neither invokes the hook nor acknowledges; the hook is invoked
\* by a call that has taken a delivery, in a step that does not acknowledge;
\* an acknowledgment is sent by a call whose hook has returned.
C19_StepsOrder ==
    \A k \in CallIds :
        /\ Len(calls'[k].took) > Len(calls[k].took) =>
               /\ PublishesBy(k) # {}
               /\ hookLog' = hookLog /\ ackLog' = ackLog
               /\ published' = published
        /\ HooksBy(k)' # HooksBy(k) =>
               /\ TookDelivery(k) /\ calls[k].hook = <<>>
               /\ ackLog' = ackLog /\ published' = published
        /\ AcksBy(k)' # AcksBy(k) =>
               /\ calls[k].hook # <<>> /\ HooksBy(k) # {}
               /\ hookLog' = hookLog /\ published' = published
        /\ Returned(k) => calls'[k] = calls[k] /\ AcksBy(k)' = AcksBy(k)
                          /\ HooksBy(k)' = HooksBy(k)
                          /\ PublishesBy(k)' = PublishesBy(k)

\* C19: the steps of every rpc call happen in a fixed order, each at most
\* once: the request is published once, then at most one delivery is taken,
\* the hook is invoked at most once and with that delivery's payload, and an
\* acknowledgment is sent only after the hook has returned; a call whose
\* stream ended takes nothing, invokes no hook and acknowledges nothing; a
\* call that has returned does nothing more.
C19_RpcStepsInOrder == []C19_StepsInv /\ [][C19_StepsOrder]_vars

\* One rpc call went through all its steps and returned, and another found
\* the stream ended.
C19_Witness ==
    \E k, e \in CallIds :
        /\ IsRpc(k) /\ calls[k].ret = <<Ok>>
        /\ PublishesBy(k) # {} /\ TookDelivery(k)
        /\ HooksBy(k) # {} /\ AcksBy(k) # {}
        /\ IsRpc(e) /\ calls[e].ended /\ Returned(e)

---------------------------------------------------------------------------
(* The Publisher (src/src/publish.rs). *)

\* msg::get_root_as_message(data).msg(): the text field of the payload read
\* as a Message.  Payload 1 stands for a Message that carries a text,
\* payload 2 for bytes that carry none.
MessageMsg(data) == IF data = 1 THEN <<"text">> ELSE <<>>

\* The Publisher returned by PublisherBuilder::build.  It has no extension;
\* its fields recv and properties are the Producer's consume and tx_props.
NewPublisher(b, tx, rx, q) ==
    [tx |-> tx, rx |-> rx,
     consume |-> [queue |-> q, chan |-> rx, buf |-> <<>>, ended |-> FALSE],
     ex |-> b.ex, queue |-> b.queue,
     tx_props |-> b.tx_props,
     rx_props |-> WithReplyTo(b.tx_props, q)]

\* PublisherBuilder::build, on a PublisherBuilder configured as the
\* ProducerBuilder is (ex, queue, properties).
PublisherBuild(failAt) ==
    LET s1 == ConnChannel(channels, queues, ngen, builder.queue, DefaultQueueOpts)
        s2 == ConnChannel(s1.channels, s1.queues, s1.ngen, "",
                          [DefaultQueueOpts EXCEPT !.exclusive = TRUE,
                                                   !.auto_delete = TRUE])
        cons == [queue |-> s2.q, chan |-> s2.ch, tag |-> "producer"]
    IN  /\ IF failAt = 0 THEN NoFault ELSE Fault("build", 0)
        /\ IF failAt = 1
           THEN UNCHANGED <<channels, queues, ngen, consumers, producers>>
           ELSE IF failAt = 2
           THEN /\ channels' = s1.channels
                /\ queues' = s1.queues
                /\ ngen' = s1.ngen
                /\ UNCHANGED <<consumers, producers>>
           ELSE /\ channels' = s2.channels
                /\ queues' = s2.queues
                /\ ngen' = s2.ngen
                /\ IF failAt = 3
                   THEN UNCHANGED <<consumers, producers>>
                   ELSE /\ consumers' = consumers \cup {cons}
                        /\ producers' =
                               Append(producers,
                                      NewPublisher(builder, s1.ch, s2.ch, s2.q))
        /\ UNCHANGED <<builder, brokerLogs, callState>>

\* Publisher::publish
PublisherPublish(c, p, msg, ok) ==
    LET k == Len(calls) + 1
        call == NewCall("publish", p, c, msg)
    IN  /\ CanStart(c)
        /\ p \in 1..Len(producers)
        /\ ~Borrowed(p)
        /\ Len(calls) < MaxCalls
        /\ UNCHANGED <<pc, cur>>
        /\ IF ok
           THEN /\ BasicPublish(producers[p].ex, producers[p].queue, msg,
                                producers[p].tx_props, p, k)
                /\ calls' = Append(calls, [call EXCEPT !.req = Len(published) + 1,
                                                       !.ret = <<Ok>>])
                /\ NoFault
           ELSE /\ Fault("publish", k)
                /\ calls' = Append(calls,
                       [call EXCEPT !.ret = <<Err(BrokerError("publish", Len(faults) + 1))>>])
                /\ UNCHANGED <<published, inbox>>
        /\ UNCHANGED <<builder, producers, channels, queues, consumers, ngen,
                       ackLog, hookLog>>

\* Publisher::rpc up to its first await: basic_publish with rx_props.
PublisherRpcPublish(c, p, msg, ok) ==
    LET k == Len(calls) + 1
        call == NewCall("rpc", p, c, msg)
    IN  /\ CanStart(c)
        /\ p \in 1..Len(producers)
        /\ ~Borrowed(p)
        /\ Len(calls) < MaxCalls
        /\ IF ok
           THEN /\ BasicPublish(producers[p].ex, producers[p].queue, msg,
                                producers[p].rx_props, p, k)
                /\ calls' = Append(calls, [call EXCEPT !.req = Len(published) + 1])
                /\ pc' = [pc EXCEPT ![c] = "pub_next"]
                /\ cur' = [cur EXCEPT ![c] = k]
                /\ NoFault
           ELSE /\ Fault("publish", k)
                /\ calls' = Append(calls,
                       [call EXCEPT !.ret = <<Err(BrokerError("publish", Len(faults) + 1))>>])
                /\ UNCHANGED <<pc, cur, published, inbox>>
        /\ UNCHANGED <<builder, producers, channels, queues, consumers, ngen,
                       ackLog, hookLog>>

\* Publisher::rpc at self.recv.next().await, and for a delivery up to the
\* basic_ack: the payload is read as a Message and msg().unwrap() is printed,
\* which panics when the payload carries no text; the call then never
\* returns and sends nothing more.
PublisherRpcNext(c) ==
    LET k == cur[c]
        p == calls[k].p
        s == producers[p].consume
    IN  /\ pc[c] = "pub_next"
        /\ IF s.buf # <<>>
           THEN LET item == Head(s.buf)
                    taken == [calls EXCEPT ![k].took = Append(@, item)]
                IN  /\ producers' = [producers EXCEPT ![p].consume.buf = Tail(@)]
                    /\ IF item.kind = "error"
                       THEN Return(c, taken, Err(item.err))
                       ELSE /\ calls' = taken
                            /\ pc' = [pc EXCEPT ![c] =
                                          IF MessageMsg(item.data) = <<>>
                                          THEN "panicked" ELSE "pub_ack"]
                            /\ UNCHANGED cur
           ELSE /\ s.ended
                /\ Return(c, [calls EXCEPT ![k].ended = TRUE], Ok)
                /\ UNCHANGED producers
        /\ UNCHANGED <<builder, channels, queues, consumers, ngen, faults,
                       brokerLogs>>

\* Publisher::rpc at self.rx.basic_ack(delivery_tag, _).await
PublisherRpcAck(c, ok) ==
    LET k == cur[c]
        p == calls[k].p
        d == calls[k].took[1]
    IN  /\ pc[c] = "pub_ack"
        /\ BasicAck(producers[p].rx, d.tag, ok, k)
        /\ IF ok
           THEN /\ Return(c, calls, Ok)
                /\ NoFault
           ELSE /\ Fault("ack", k)
                /\ Return(c, calls, Err(BrokerError("ack", Len(faults) + 1)))
        /\ UNCHANGED <<builder, producers, channels, queues, consumers, ngen,
                       inbox, published, hookLog>>

---------------------------------------------------------------------------
(* A Producer and a Publisher side by side. *)

\* The Publisher is built second, by a builder of the same configuration.
PublisherIds == {2}

\* A Producer with the default hook (DebugPrinter, which always succeeds)
\* and a Publisher are built on the same connection with the same
\* configuration, and are given calls under every broker behaviour.
NextEq ==
    \/ \E q \in {WorkQueue} : producers = <<>> /\ BuilderQueue(q)
    \/ Len(producers) + 1 \in ProducerIds /\ Build(0)
    \/ Len(producers) + 1 \in PublisherIds /\ PublisherBuild(0)
    \/ \E c \in Callers, p \in ProducerIds, msg \in Payloads, ok \in BOOLEAN :
           Publish(c, p, msg, ok)
    \/ \E c \in Callers, p \in ProducerIds, msg \in Payloads, ok \in BOOLEAN :
           RpcPublish(c, p, msg, ok)
    \/ \E c \in Callers : RpcNext(c)
    \/ \E c \in Callers : RpcRecv(c)
    \/ \E c \in Callers, ok \in BOOLEAN : RpcAck(c, ok)
    \/ \E c \in Callers, p \in PublisherIds, msg \in Payloads, ok \in BOOLEAN :
           PublisherPublish(c, p, msg, ok)
    \/ \E c \in Callers, p \in PublisherIds, msg \in Payloads, ok \in BOOLEAN :
           PublisherRpcPublish(c, p, msg, ok)
    \/ \E c \in Callers : PublisherRpcNext(c)
    \/ \E c \in Callers, ok \in BOOLEAN : PublisherRpcAck(c, ok)
    \/ PeerProcess
    \/ \E p \in ProducerIds \cup PublisherIds : StreamError(p)
    \/ \E p \in ProducerIds \cup PublisherIds : StreamEnd(p)

SpecEq == Init /\ [][NextEq]_vars

\* The call has returned, or has panicked and will do nothing more.
Finished(k) ==
    Returned(k) \/ \E c \in Callers : cur[c] = k /\ pc[c] = "panicked"

\* What the broker did to call k: whether it accepted the request, what the
\* stream yielded to the call, and how it answered the acknowledgment.
BrokerBehaviour(k) ==
    [accepted |-> calls[k].req # 0,
     yielded  |-> [i \in 1..Len(calls[k].took) |->
                      IF calls[k].took[i].kind = "delivery"
                      THEN [kind |-> "delivery", tag |-> calls[k].took[i].tag,
                            data |-> calls[k].took[i].data]
                      ELSE [kind |-> "error"]],
     ended    |-> calls[k].ended]
AckAnswers(k) == {ackLog[i].ok : i \in AcksBy(k)}

\* What call k did at the broker and returned to its caller, the reply queue
\* and the rx channel being named as the call's own.
Observable(k) ==
    LET own == producers[calls[k].p]
    IN  [publishes |-> {[ex |-> published[i].ex, rkey |-> published[i].rkey,
                         data |-> published[i].data,
                         reply_to |->
                             IF published[i].props.reply_to = <<>> THEN "none"
                             ELSE IF published[i].props.reply_to
                                         = <<own.consume.queue>>
                                  THEN "own" ELSE "other"] :
                            i \in PublishesBy(k)},
         acks      |-> {[op |-> ackLog[i].op, tag |-> ackLog[i].tag,
                         own_rx |-> ackLog[i].chan = own.rx] : i \in AcksBy(k)},
         returned  |-> IF calls[k].ret = <<>> THEN <<>>
                       ELSE IF calls[k].ret[1].tag = "Ok" THEN <<"Ok">>
                       ELSE <<"Err", calls[k].ret[1].err.site>>]

\* C20: a call on the Producer with the default hook and the same call on the
\* Publisher, met by the same broker behaviour, emit the same publishes
\* (exchange, routing key, payload, reply-to), issue the same acknowledgments
\* and return the same success or error.
C20_PublisherEquivalentToProducer ==
    \A k1, k2 \in CallIds :
        /\ calls[k1].p \in ProducerIds /\ calls[k2].p \in PublisherIds
        /\ Finished(k1) /\ Finished(k2)
        /\ calls[k1].op = calls[k2].op /\ calls[k1].msg = calls[k2].msg
        /\ BrokerBehaviour(k1) = BrokerBehaviour(k2)
        /\ (AcksBy(k1) # {} /\ AcksBy(k2) # {} => AckAnswers(k1) = AckAnswers(k2))
        => Observable(k1) = Observable(k2)

====
